---- MODULE Spec2Model ----
(***************************************************************************)
(* A model of the Jira REST client of src/jiraCore.py (class JiraAPI) and  *)
(* of its configuration src/jiraVariables.py (class JiraVariables).        *)
(*                                                                         *)
(* The client is one Python object: its attribute dictionary is the        *)
(* variable `self`.  Every public method is one action; the action draws   *)
(* the outcome of the method's HTTP exchange (a network error, or a        *)
(* response with a status code and a body) from the environment and        *)
(* records in `call` what the invocation did: the requests it issued, the  *)
(* exception it let escape (if any) and the value it returned.             *)
(*                                                                         *)
(* Encoding of numbers: the code mixes integer transport status codes      *)
(* (200, 404) with float sentinels (-14, -14.1).  All status codes are     *)
(* kept in TENTHS: 200 is 2000, -14 is -140, -14.1 is -141.                *)
(***************************************************************************)
EXTENDS Integers, Sequences, FiniteSets, TLC

VARIABLES self, call, server_issue

vars == <<self, call, server_issue>>

(***************************************************************************)
(* Python values.                                                          *)
(***************************************************************************)
None == [py |-> "None"]
PyStr(s) == [py |-> "str", s |-> s]
PyInt(n) == [py |-> "int", n |-> n]
PyList(items) == [py |-> "list", items |-> items]
\* an attribute that was never assigned: reading it raises AttributeError
Unset == [py |-> "unset"]
\* the bound method JiraAPI.project_info, as the value of self.project_info
BoundMethod == [py |-> "method"]

RECURSIVE ReprItems(_)
\* the items of a Python list of strings as repr() prints them: 'a', 'b'
ReprItems(items) ==
    IF items = <<>> THEN ""
    ELSE "'" \o Head(items) \o "'"
         \o (IF Len(items) > 1 THEN ", " ELSE "") \o ReprItems(Tail(items))

\* str(v), also what an f-string does with {v}
Str(v) ==
    CASE v.py = "None" -> "None"
      [] v.py = "str"  -> v.s
      [] v.py = "int"  -> ToString(v.n)
      [] v.py = "list" -> "[" \o ReprItems(v.items) \o "]"

(***************************************************************************)
(* Status codes, in tenths.                                                *)
(***************************************************************************)
Transport(status) == status * 10
Sentinel(whole, tenth) == -(whole * 10 + tenth)
\* the integer part of a status code (Python's int(): truncation towards 0)
IntPart(code) == IF code < 0 THEN -((-code) \div 10) ELSE code \div 10
TenthPart(code) == IF code < 0 THEN (-code) % 10 ELSE code % 10

(***************************************************************************)
(* The HTTP exchange: requests.get/post/put followed by raise_for_status.  *)
(***************************************************************************)
StatusCodes == {200, 201, 404}
\* Response.raise_for_status raises HTTPError for 4xx and 5xx
RaisesForStatus(status) == 400 <= status /\ status < 600
Is2xx(status) == 200 <= status /\ status < 300

BadJson == [json |-> "invalid"]
ErrorBody == [json |-> "error"]
NoBody == [json |-> "none"]

NetworkError == [kind |-> "network_error", status |-> 0, body |-> NoBody]
Response(status, body) == [kind |-> "response", status |-> status, body |-> body]

\* what one HTTP exchange can come to, for an endpoint whose 2xx bodies are `bodies`
Outcomes(bodies) ==
    {NetworkError}
      \cup {Response(s, ErrorBody) : s \in {s \in StatusCodes : ~Is2xx(s)}}
      \cup {Response(s, b) : s \in {s \in StatusCodes : Is2xx(s)}, b \in bodies \cup {BadJson}}

IsNetworkError(o) == o.kind = "network_error"
IsHTTPError(o) == o.kind = "response" /\ RaisesForStatus(o.status)
\* json.loads(response.text) succeeds
Parses(o) == o.kind = "response" /\ o.body.json = "object"

Request(method, url, data) == [method |-> method, url |-> url, data |-> data]
NoData == [payload |-> "none"]

(***************************************************************************)
(* What an invocation comes to.                                            *)
(***************************************************************************)
NoResult == [shape |-> "none"]
Returned(s, requests, result) ==
    [self |-> s, requests |-> requests, raised |-> "none", result |-> result]
Raised(s, requests, exception) ==
    [self |-> s, requests |-> requests, raised |-> exception, result |-> NoResult]

\* a bare status code
IntResult(code) == [shape |-> "number", status_code |-> code]
\* the pair (status_code, str(errh))
TupleResult(code) == [shape |-> "tuple", status_code |-> code, message |-> "HTTPError"]

(***************************************************************************)
(* Configuration (JiraVariables) as the environment provides it.           *)
(***************************************************************************)
base_url == "https://jira.example/rest/"
jvars_default_project_key == "DEF"
jvars_default_issue_type_id == PyInt(10001)
jvars_default_priority_id == PyInt(3)

ProjectKeys == {"OPS"}
AccountIds == {"acct1", "acct2"}
ProjectIds == {"10000"}

UserDoc(account_id) == [json |-> "object", accountId |-> PyStr(account_id)]
ProjectDoc(id) == [json |-> "object", id |-> PyStr(id)]

MyselfBodies == {UserDoc(a) : a \in AccountIds}
ProjectBodies == {ProjectDoc(p) : p \in ProjectIds}

(***************************************************************************)
(* authenticate                                                            *)
(***************************************************************************)
authenticate(s, o) ==
    LET req == <<Request("GET", base_url \o "api/3/myself", NoData)>>
    IN  IF IsHTTPError(o) THEN Returned(s, req, TupleResult(Sentinel(14, 1)))
        ELSE IF IsNetworkError(o) \/ ~Parses(o) THEN Returned(s, req, IntResult(Sentinel(14, 0)))
        ELSE Returned([s EXCEPT !.user_account_id = o.body.accountId], req,
                      IntResult(Transport(o.status)))

(***************************************************************************)
(* project_info                                                            *)
(***************************************************************************)
\* A successful call assigns the parsed document to self.project_info (line 147),
\* which shadows the method: the next self.project_info(...) calls a dict.
project_info(s, project_key, o) ==
    LET req == <<Request("GET", base_url \o "api/3/project/" \o project_key, NoData)>>
    IN  IF s.project_info # BoundMethod THEN Raised(s, <<>>, "TypeError")
        ELSE IF IsHTTPError(o) THEN Returned(s, req, TupleResult(Sentinel(16, 1)))
        ELSE IF IsNetworkError(o) \/ ~Parses(o)
             THEN Returned([s EXCEPT !.project_id = PyStr("-1")], req,
                           IntResult(Sentinel(16, 0)))
        ELSE Returned([s EXCEPT !.project_info = o.body, !.project_id = o.body.id], req,
                      IntResult(Transport(o.status)))

(***************************************************************************)
(* __init__                                                                *)
(***************************************************************************)
\* the attributes assigned before the first request
NewClient ==
    [base_url |-> base_url,
     default_issue_type_id |-> jvars_default_issue_type_id,
     default_priority_id |-> jvars_default_priority_id,
     headers |-> {"Accept", "Content-Type", "X-ExperimentalAPI"},
     default_project_key |-> Unset,
     user_account_id |-> Unset,
     project_id |-> Unset,
     project_info |-> BoundMethod]

\* the project key the constructor looks up; NoKey is project_key=None
NoKey == "<None>"
\* the constructor ignoring its argument
ConstructorKey_default_only(project_key) == jvars_default_project_key

ConstructorKey(project_key) ==
    IF project_key = NoKey THEN jvars_default_project_key ELSE project_key

JiraAPI_init(project_key, o_auth, o_project) ==
    LET a == authenticate(NewClient, o_auth)
        s1 == [a.self EXCEPT !.default_project_key = PyStr(ConstructorKey(project_key))]
        p == project_info(s1, Str(s1.default_project_key), o_project)
    IN  Returned(p.self, a.requests \o p.requests, NoResult)

(***************************************************************************)
(* JSON documents the server answers with.                                 *)
(***************************************************************************)
\* dict.get(key): the value, or None for a missing key
Get(doc, key) == IF key \in DOMAIN doc THEN doc[key] ELSE None
EmptyObject == [json |-> "object"]
\* the test `is not None` in place of the truth value
Truthy_is_not_None(doc) == doc # None

\* Python truth value of a parsed document: {} and [] are false
Truthy(doc) == DOMAIN doc # {"json"}

FullUserDoc(account_id) ==
    [json |-> "object", accountId |-> PyStr(account_id),
     emailAddress |-> PyStr(account_id \o "@example.com"),
     displayName |-> PyStr("User " \o account_id), active |-> TRUE]
UserBodies == {FullUserDoc(a) : a \in AccountIds} \cup {EmptyObject}

\* exception handlers shared by most methods: the namedtuple / dict they return
NamedTuple(type, code, fields) ==
    [shape |-> "namedtuple", type |-> type, status_code |-> code, fields |-> fields]

(***************************************************************************)
(* user_info                                                               *)
(***************************************************************************)
user_info(s, account_id, o) ==
    LET req == <<Request("GET", base_url \o "api/3/user", [params |-> account_id])>>
        record(code, doc, found, email, name, active) ==
            NamedTuple("user_info", code,
                       [jira_user_dict |-> doc, jira_user_found |-> found,
                        jira_user_email |-> email, jira_user_display_name |-> name,
                        jira_user_active |-> active])
    IN  IF IsHTTPError(o) THEN Returned(s, req, TupleResult(Sentinel(17, 1)))
        ELSE IF IsNetworkError(o) \/ ~Parses(o)
             THEN Returned(s, req, record(Sentinel(17, 0), EmptyObject, -1,
                                          PyStr(""), PyStr(""), FALSE))
        ELSE IF Truthy(o.body)
             THEN Returned(s, req, record(Transport(o.status), o.body, 1,
                                          Get(o.body, "emailAddress"),
                                          Get(o.body, "displayName"),
                                          Get(o.body, "active")))
        ELSE Returned(s, req, record(Transport(o.status), EmptyObject, 0,
                                     PyStr(""), PyStr(""), FALSE))

(***************************************************************************)
(* user_by_email                                                           *)
(***************************************************************************)
\* An address is the sequence of its characters.
Alnum == {"a", "b", "x", "0", "1"}
\* \w: letters, digits and the underscore
WordChars == Alnum \cup {"_"}
AllIn(chars, from, to, set) == \A i \in from..to : chars[i] \in set

\* a weaker test: any address with an @
PatternMatches_any_at_sign(chars) == \E at \in 1..Len(chars) : chars[at] = "@"

\* re.compile(r'^[a-z0-9]+[\._]?[a-z0-9]+[@]\w+[.]\w+$', re.IGNORECASE).match
PatternMatches(chars) ==
    \E at \in 1..Len(chars), dot \in 1..Len(chars) :
        /\ chars[at] = "@" /\ chars[dot] = "." /\ at < dot
        \* [a-z0-9]+[\._]?[a-z0-9]+ before the @
        /\ \/ (at - 1 >= 2 /\ AllIn(chars, 1, at - 1, Alnum))
           \/ \E sep \in 2..(at - 2) :
                 /\ chars[sep] \in {".", "_"}
                 /\ AllIn(chars, 1, sep - 1, Alnum)
                 /\ AllIn(chars, sep + 1, at - 1, Alnum)
        \* \w+[.]\w+ after it
        /\ dot - at >= 2 /\ AllIn(chars, at + 1, dot - 1, WordChars)
        /\ Len(chars) - dot >= 1 /\ AllIn(chars, dot + 1, Len(chars), WordChars)

RECURSIVE Join(_)
Join(chars) == IF chars = <<>> THEN "" ELSE Head(chars) \o Join(Tail(chars))

EmailAddresses ==
    {<<"a", "b", "@", "x", ".", "a">>,        \* ab@x.a
     <<"a", ".", "b", "@", "x", ".", "a">>,   \* a.b@x.a
     <<"a", "@", "x", ".", "a">>,             \* a@x.a: one character before the @
     <<"a", "b", "x">>}                       \* abx

FoundUser(with_avatar) ==
    IF with_avatar
    THEN [json |-> "object", accountId |-> PyStr("acct1"), avatarUrls |-> PyStr("urls")]
    ELSE [json |-> "object", accountId |-> PyStr("acct1")]
\* the search answers with a JSON array of users
UserArray(users) == [json |-> "object", array |-> users]
SearchBodies ==
    {UserArray(<<>>), UserArray(<<FoundUser(TRUE)>>), UserArray(<<FoundUser(FALSE)>>),
     UserArray(<<FoundUser(TRUE), FoundUser(FALSE)>>)}
\* dict.pop(key): the document without the key
Pop(doc, key) == [k \in DOMAIN doc \ {key} |-> doc[k]]

user_by_email(s, email_address, o) ==
    LET req == <<Request("GET", base_url \o "api/3/user/search/?query=" \o Join(email_address),
                         NoData)>>
        record(code, doc, found) ==
            NamedTuple("user_info", code, [jira_user_dict |-> doc, jira_user_found |-> found])
    IN  IF ~PatternMatches(email_address)
        THEN Returned(s, <<>>, record(Sentinel(18, 1), EmptyObject, 0))
        ELSE IF IsHTTPError(o) THEN Returned(s, req, TupleResult(Sentinel(18, 1)))
        ELSE IF IsNetworkError(o) \/ ~Parses(o)
             THEN Returned(s, req, record(Sentinel(18, 0), EmptyObject, -1))
        ELSE IF o.body.array = <<>>
             THEN Returned(s, req, record(Transport(o.status), EmptyObject, 0))
        \* jira_user_dict.pop("avatarUrls") raises KeyError without the key
        ELSE IF "avatarUrls" \notin DOMAIN o.body.array[1]
             THEN Returned(s, req, record(Sentinel(18, 0), EmptyObject, -1))
        ELSE Returned(s, req, record(Transport(o.status), Pop(o.body.array[1], "avatarUrls"), 1))

(***************************************************************************)
(* search_issues                                                           *)
(***************************************************************************)
Queries == {"project=DEF"}
SearchResultDoc(with_issues) ==
    IF with_issues THEN [json |-> "object", issues |-> <<"DEF-1">>, total |-> 1]
    ELSE [json |-> "object", errorMessages |-> <<>>]
IssueSearchBodies == {SearchResultDoc(TRUE), SearchResultDoc(FALSE)}
\* pd.json_normalize(doc, record_path=[path]): a table of the records under path
DataFrame(rows) == [py |-> "DataFrame", rows |-> rows]
EmptyList == PyList(<<>>)

search_issues(s, search_query, as_dataframe, o) ==
    LET req == <<Request("GET", base_url \o "api/3/search?jql=" \o search_query, NoData)>>
        record(code, issues) ==
            NamedTuple("issue_search_results", code, [jira_issues |-> issues])
    IN  IF IsHTTPError(o) THEN Returned(s, req, TupleResult(Sentinel(21, 1)))
        ELSE IF IsNetworkError(o) \/ ~Parses(o)
             THEN Returned(s, req, record(Sentinel(21, 0), EmptyList))
        ELSE IF ~as_dataframe THEN Returned(s, req, record(Transport(o.status), o.body))
        \* record_path=['issues'] raises KeyError when the document has no such key
        ELSE IF "issues" \notin DOMAIN o.body
             THEN Returned(s, req, record(Sentinel(21, 0), EmptyList))
        ELSE Returned(s, req, record(Transport(o.status), DataFrame(o.body.issues)))

(***************************************************************************)
(* issue_create                                                            *)
(***************************************************************************)
\* `x if x is not None else default`
OrDefault(arg, default) == IF arg = None THEN default ELSE arg

CreatedIssueDoc ==
    [json |-> "object", id |-> PyStr("10004"), key |-> PyStr("DEF-4"),
     self |-> PyStr(base_url \o "api/3/issue/10004")]
CreateBodies == {CreatedIssueDoc}

issue_create(s, summary, project_id_arg, issue_type_id_arg, description_arg, assignee_arg, priority_arg, o) ==
    LET project_id == OrDefault(project_id_arg, s.project_id)
        issue_type_id == OrDefault(issue_type_id_arg, s.default_issue_type_id)
        description == OrDefault(description_arg, PyStr(""))
        assignee == OrDefault(assignee_arg, s.user_account_id)
        \* json.loads(f'"{priority}"')
        priority == PyStr(Str(OrDefault(priority_arg, s.default_priority_id)))
        \* the "priority" field is commented out of input_json (line 355)
        payload == [assignee |-> assignee, description |-> description,
                    issuetype |-> issue_type_id, project |-> project_id,
                    summary |-> summary]
        req == <<Request("POST", base_url \o "api/3/issue", payload)>>
        record(code, info, id, key, url) ==
            NamedTuple("issue", code, [issue_info |-> info, id |-> id, key |-> key,
                                       issue_url |-> url])
        failed(code) == record(code, EmptyList, PyInt(-1), PyStr(""), PyStr(""))
    IN  \* self.project_id / self.user_account_id are read before the try block
        IF (project_id_arg = None /\ s.project_id = Unset)
           \/ (assignee_arg = None /\ s.user_account_id = Unset)
        THEN Raised(s, <<>>, "AttributeError")
        \* both handlers return response.status_code, not the sentinel they assign;
        \* after a network error `response` was never bound
        ELSE IF IsNetworkError(o) THEN Raised(s, req, "UnboundLocalError")
        ELSE IF IsHTTPError(o) \/ ~Parses(o) THEN Returned(s, req, failed(Transport(o.status)))
        ELSE Returned(s, req, record(Transport(o.status), o.body, Get(o.body, "id"),
                                     Get(o.body, "key"), Get(o.body, "self")))

(***************************************************************************)
(* The status-only methods: issue_transition, issue_field_update,          *)
(* issue_add_comment, issue_assign, role_add_user.                         *)
(***************************************************************************)
\* StatusOnly with the `self.project_id = '-1'` of project_info's handler copied in
StatusOnly_resets_project(s, req, o, whole) ==
    IF IsHTTPError(o) THEN Returned(s, req, IntResult(Sentinel(whole, 1)))
    ELSE IF IsNetworkError(o)
         THEN Returned([s EXCEPT !.project_id = PyStr("-1")], req, IntResult(Sentinel(whole, 0)))
    ELSE Returned(s, req, IntResult(Transport(o.status)))

\* try: request; raise_for_status; return status / except HTTPError / except Exception
StatusOnly(s, req, o, whole) ==
    IF IsHTTPError(o) THEN Returned(s, req, IntResult(Sentinel(whole, 1)))
    ELSE IF IsNetworkError(o) THEN Returned(s, req, IntResult(Sentinel(whole, 0)))
    ELSE Returned(s, req, IntResult(Transport(o.status)))

IssueIds == {"10004"}
TransitionIds == {"51"}

issue_transition(s, issue_id, transition_id, o) ==
    StatusOnly(s, <<Request("POST", base_url \o "api/3/issue/" \o issue_id \o "/transitions",
                            [transition |-> transition_id])>>, o, 37)

issue_field_update(s, issue_id, field_update_dict, o) ==
    StatusOnly(s, <<Request("PUT", base_url \o "api/3/issue/" \o issue_id,
                            [fields |-> field_update_dict])>>, o, 35)

issue_add_comment(s, issue_id, comment, o) ==
    StatusOnly(s, <<Request("POST", base_url \o "api/3/issue/" \o issue_id \o "/comment",
                            [body |-> comment])>>, o, 33)

issue_assign(s, issue_id, accountId, o) ==
    StatusOnly(s, <<Request("PUT", base_url \o "api/3/issue/" \o issue_id \o "/assignee",
                            [accountId |-> accountId])>>, o, 34)

RoleIds == {"10499"}

role_add_user(s, role_id, accountId, project_id_arg, o) ==
    LET project_id == OrDefault(project_id_arg, s.project_id)
    IN  IF project_id_arg = None /\ s.project_id = Unset THEN Raised(s, <<>>, "AttributeError")
        ELSE StatusOnly(s, <<Request("POST", base_url \o "api/3/project/" \o Str(project_id)
                                               \o "/role/" \o role_id,
                                     [user |-> <<accountId>>])>>, o, 51)

(***************************************************************************)
(* issue_add_attachment and get_file_application_type                      *)
(***************************************************************************)
\* a path, its suffix without the dot, and whether open(path, "rb") succeeds
File(path, suffix, readable) == [path |-> path, suffix |-> suffix, readable |-> readable]
Files ==
    {File("plan.mmp", "mmp", TRUE), File("notes.txt", "txt", TRUE),
     File("README", "", TRUE), File("gone.txt", "txt", FALSE)}

\* `file_extension in ('mmp')`: ('mmp') is the string 'mmp', so this is a substring test
SubstringOfMmp(suffix) == suffix \in {"", "m", "p", "mm", "mp", "mmp"}
\* mimetypes.guess_type(path)[0]
GuessType(suffix) == IF suffix = "txt" THEN PyStr("text/plain") ELSE None

get_file_application_type(file_attachment) ==
    IF SubstringOfMmp(file_attachment.suffix) THEN PyStr("application/octet-stream")
    ELSE OrDefault(GuessType(file_attachment.suffix), PyStr("txt/plain"))

issue_add_attachment(s, issue_id, file_attachment, o) ==
    LET application_type == get_file_application_type(file_attachment)
        req == <<Request("POST", base_url \o "api/3/issue/" \o issue_id \o "/attachments",
                         [file |-> file_attachment.path, type |-> application_type])>>
    IN  \* open(file_attachment, "rb") is evaluated before the try block
        IF ~file_attachment.readable THEN Raised(s, <<>>, "FileNotFoundError")
        ELSE StatusOnly(s, req, o, 33)

(***************************************************************************)
(* issue_changelog                                                         *)
(***************************************************************************)
ChangelogDoc == [json |-> "object", values |-> <<"created">>]
ChangelogBodies == {ChangelogDoc}
MaxResults == {1000}

\* issue_changelog with a generic handler that sets the status code alone
issue_changelog_without_comment(s, issue_id, max_results, o) ==
    LET req == <<Request("GET", base_url \o "api/3/issue/" \o issue_id
                                   \o "/changelog?maxResults=" \o ToString(max_results), NoData)>>
        dict(code, entries, comment) ==
            [shape |-> "dict", status_code |-> code, changelog_entries |-> entries,
             status_exception_comment |-> comment]
    IN  IF IsHTTPError(o)
        THEN Returned(s, req, dict(Sentinel(36, 1), None,
                                   PyStr("Error retrieving changelog. HTTPError")))
        ELSE IF IsNetworkError(o) \/ ~Parses(o)
             THEN Returned(s, req, dict(Sentinel(36, 0), None, None))
        ELSE Returned(s, req, dict(Transport(o.status), o.body, None))

issue_changelog(s, issue_id, max_results, o) ==
    LET req == <<Request("GET", base_url \o "api/3/issue/" \o issue_id
                                   \o "/changelog?maxResults=" \o ToString(max_results), NoData)>>
        dict(code, entries, comment) ==
            [shape |-> "dict", status_code |-> code, changelog_entries |-> entries,
             status_exception_comment |-> comment]
    IN  IF IsHTTPError(o)
        THEN Returned(s, req, dict(Sentinel(36, 1), None,
                                   PyStr("Error retrieving changelog. HTTPError")))
        ELSE IF IsNetworkError(o) \/ ~Parses(o)
             THEN Returned(s, req, dict(Sentinel(36, 0), None,
                                        PyStr("Error retrieving changelog. Exception")))
        ELSE Returned(s, req, dict(Transport(o.status), o.body, None))

(***************************************************************************)
(* issue_types_user and issue_statuses                                     *)
(***************************************************************************)
IssueTypesDoc == [json |-> "object", array |-> <<"Task", "Epic">>]
IssueTypesBodies == {IssueTypesDoc}
StatusesDoc == [json |-> "object", values |-> <<"To Do", "Done">>]
StatusesBodies == {StatusesDoc}
\* pd.json_normalize(doc) without a record path: one row per document
Normalize(doc) == DataFrame(IF "array" \in DOMAIN doc THEN doc.array ELSE <<doc>>)

\* the body shared by the two listing methods
Listing(s, req, type, field, whole, as_dataframe, o) ==
    LET record(code, value) ==
            [shape |-> "namedtuple", type |-> type, status_code |-> code,
             fields |-> [f \in {field} |-> value]]
    IN  IF IsHTTPError(o) THEN Returned(s, req, record(Sentinel(whole, 1), EmptyList))
        ELSE IF IsNetworkError(o) \/ ~Parses(o)
             THEN Returned(s, req, record(Sentinel(whole, 0), EmptyList))
        ELSE Returned(s, req, record(Transport(o.status),
                                     IF as_dataframe THEN Normalize(o.body) ELSE o.body))

issue_types_user(s, as_dataframe, o) ==
    Listing(s, <<Request("GET", base_url \o "api/3/issuetype", NoData)>>,
            "issue_types", "issue_types", 61, as_dataframe, o)

issue_statuses(s, projectLevel, as_dataframe, o) ==
    \* self.project_id is read, before the try block, to build the URL
    IF projectLevel /\ s.project_id = Unset THEN Raised(s, <<>>, "AttributeError")
    ELSE Listing(s, <<Request("GET",
                              IF projectLevel
                              THEN base_url \o "api/3/statuses/search?projectId="
                                            \o Str(s.project_id)
                              ELSE base_url \o "api/3/statuses/search", NoData)>>,
                 "issue_statuses", "issue_statuses", 71, as_dataframe, o)

(***************************************************************************)
(* role_get_users and role_info                                            *)
(***************************************************************************)
Actor(account_id) == [actorUser_accountId |-> account_id]
\* a role document; with_actors = FALSE is a document without the "actors" key
RoleDoc(with_actors, actors) ==
    IF with_actors THEN [json |-> "object", name |-> "approver", actors |-> actors]
    ELSE [json |-> "object", name |-> "approver"]
MaxActors == 2
RECURSIVE ActorLists(_)
ActorLists(n) ==
    IF n = 0 THEN {<<>>}
    ELSE ActorLists(n - 1)
           \cup {Append(l, Actor(a)) : l \in {l \in ActorLists(n - 1) : Len(l) = n - 1},
                                       a \in AccountIds}
RoleBodies == {RoleDoc(TRUE, l) : l \in ActorLists(MaxActors)} \cup {RoleDoc(FALSE, <<>>)}

\* get_user_info as an alias of user_info: one request per actor
get_user_info_as_user_info(s, accountId) ==
    [raised |-> "none",
     requests |-> <<Request("GET", base_url \o "api/3/user", [params |-> accountId])>>,
     jira_user_email |-> PyStr(accountId \o "@example.com")]

\* self.get_user_info(accountId=accountId), line 904: JiraAPI defines no
\* get_user_info, so evaluating the attribute raises AttributeError and no
\* request is issued for the actor.
get_user_info(s, accountId) ==
    [raised |-> "AttributeError", requests |-> <<>>, jira_user_email |-> None]

RECURSIVE LookupActors(_, _)
\* the loop at lines 902-905: the rows with user_email set and the requests
\* issued on the way, stopped by the first exception
LookupActors(s, actors) ==
    IF actors = <<>> THEN [raised |-> "none", requests |-> <<>>, rows |-> <<>>]
    ELSE LET user == get_user_info(s, Head(actors).actorUser_accountId)
             rest == LookupActors(s, Tail(actors))
             row == [actorUser_accountId |-> Head(actors).actorUser_accountId,
                     user_email |-> user.jira_user_email]
         IN  IF user.raised # "none"
             THEN [raised |-> user.raised, requests |-> user.requests, rows |-> <<>>]
             ELSE [raised |-> rest.raised, requests |-> user.requests \o rest.requests,
                   rows |-> IF rest.raised # "none" THEN <<>> ELSE <<row>> \o rest.rows]

role_get_users(s, role_id, project_id_arg, o) ==
    LET project_id == OrDefault(project_id_arg, s.project_id)
        req == <<Request("GET", base_url \o "api/3/project/" \o Str(project_id)
                                  \o "/role/" \o role_id, NoData)>>
        record(code, df, doc) ==
            NamedTuple("role_info", code, [jiraRole_users_df |-> df, jiraRole_dict |-> doc])
        failed(code) == record(code, DataFrame(<<>>), EmptyObject)
    IN  IF project_id_arg = None /\ s.project_id = Unset THEN Raised(s, <<>>, "AttributeError")
        ELSE IF IsHTTPError(o) THEN Returned(s, req, failed(Sentinel(50, 1)))
        ELSE IF IsNetworkError(o) \/ ~Parses(o) THEN Returned(s, req, failed(Sentinel(50, 0)))
        \* record_path=['actors'] raises KeyError when the document has no such key
        ELSE IF "actors" \notin DOMAIN o.body THEN Returned(s, req, failed(Sentinel(50, 0)))
        ELSE LET users == LookupActors(s, o.body.actors)
             IN  IF users.raised # "none"
                 THEN Returned(s, req \o users.requests, failed(Sentinel(50, 0)))
                 ELSE Returned(s, req \o users.requests,
                               record(Transport(o.status), DataFrame(users.rows), o.body))

\* pandas has no attribute `dataframe` (the class is DataFrame): both handlers of
\* role_info raise AttributeError while building their return value.
pd_dataframe_exists == FALSE

role_info(s, role_id, project_id, o) ==
    LET req == <<Request("GET", base_url \o "api/3/project/" \o Str(project_id)
                                  \o "/role/" \o role_id, NoData)>>
        record(code, df) == NamedTuple("role_info", code, [jira_role_members_df |-> df])
        handler(code) ==
            IF pd_dataframe_exists THEN Returned(s, req, record(code, DataFrame(<<>>)))
            ELSE Raised(s, req, "AttributeError")
    IN  IF IsHTTPError(o) THEN handler(Sentinel(17, 1))
        ELSE IF IsNetworkError(o) \/ ~Parses(o) THEN handler(Sentinel(17, 0))
        ELSE IF "actors" \notin DOMAIN o.body THEN handler(Sentinel(17, 0))
        ELSE Returned(s, req, record(Transport(o.status), DataFrame(o.body.actors)))

(***************************************************************************)
(* The static type table: response_type_ref and response_type_col_ref.     *)
(***************************************************************************)
\* the display-name table without its last entry
response_type_name_without_rt ==
    [ts |-> "Text Short", cs |-> "Choice Selector", cd |-> "Choice Dropdown",
     cl |-> "Choice List", us |-> "User", um |-> "User Multiple", at |-> "Attachment",
     dt |-> "Date/Time", da |-> "Date", ti |-> "Time", tl |-> "Title",
     cm |-> "Choice Multiple", pg |-> "Paragraph"]

response_type_name ==
    [ts |-> "Text Short", cs |-> "Choice Selector", cd |-> "Choice Dropdown",
     cl |-> "Choice List", us |-> "User", um |-> "User Multiple", at |-> "Attachment",
     dt |-> "Date/Time", da |-> "Date", ti |-> "Time", tl |-> "Title",
     cm |-> "Choice Multiple", pg |-> "Paragraph", rt |-> "Rich-Text"]

\* the column table with the entry of 'us' mistyped
response_col_name_us_typo ==
    [ts |-> "textField", cs |-> "choices_x", cd |-> "choices_x", cl |-> "choices_x",
     cm |-> "choices_x", us |-> "textField", um |-> "users", at |-> "textField",
     dt |-> "Date Time", da |-> "date", ti |-> "time", tl |-> "textField",
     pg |-> "textField", rt |-> "textField"]

response_col_name ==
    [ts |-> "textField", cs |-> "choices_x", cd |-> "choices_x", cl |-> "choices_x",
     cm |-> "choices_x", us |-> "users", um |-> "users", at |-> "textField",
     dt |-> "Date Time", da |-> "date", ti |-> "time", tl |-> "textField",
     pg |-> "textField", rt |-> "textField"]

\* dict.get(response_type) with a Python value as the key
TableGet(table, response_type) ==
    IF response_type.py = "str" /\ response_type.s \in DOMAIN table
    THEN PyStr(table[response_type.s]) ELSE None

response_type_ref(response_type) == TableGet(response_type_name, response_type)
response_type_col_ref(response_type) == TableGet(response_col_name, response_type)

(***************************************************************************)
(* issue_detail: the form consolidation (include_forms).                   *)
(***************************************************************************)
\* A form keeps its questions and its answers as ordered dictionaries: sequences
\* of <<identifier, value>> with distinct identifiers.  A question and an answer
\* are records of the values val.get(...) reads (None for a missing key).
Option(id, label) == [id |-> id, label |-> label]
Question(type, choices) ==
    [type |-> type, choices |-> choices, label |-> PyStr("Question"),
     jiraField |-> None, questionKey |-> None]
Answer(text, users, choices, date, time) ==
    [text |-> text, users |-> users, choices |-> choices, date |-> date, time |-> time,
     label |-> None]
Form(questions, answers) ==
    [design |-> [questions |-> questions], state |-> [answers |-> answers]]

\* df_questions / df_responses: one record per dictionary entry, in order
QuestionRecords(questions) ==
    [i \in 1..Len(questions) |->
        [questionID |-> questions[i][1], jiraField |-> questions[i][2].jiraField,
         type |-> questions[i][2].type, label |-> questions[i][2].label,
         questionKey |-> questions[i][2].questionKey, choices |-> questions[i][2].choices]]
ResponseRecords(answers) ==
    [i \in 1..Len(answers) |->
        [questionID |-> answers[i][1], textField |-> answers[i][2].text,
         users |-> answers[i][2].users, label |-> answers[i][2].label,
         choices |-> answers[i][2].choices, date |-> answers[i][2].date,
         time |-> answers[i][2].time]]

\* one row of pd.merge(df_responses, df_questions, on='questionID'), with the two
\* columns added at lines 534-535
MergedRow(r, q) ==
    [questionID |-> r.questionID, textField |-> r.textField, users |-> r.users,
     label_x |-> r.label, choices_x |-> r.choices, date |-> r.date, time |-> r.time,
     jiraField |-> q.jiraField, type |-> q.type, label_y |-> q.label,
     questionKey |-> q.questionKey, choices_y |-> q.choices,
     type_name |-> PyStr(""), value_consolidated |-> PyStr("")]

RECURSIVE Merge(_, _)
\* the inner join on questionID, in the order of the left table
Merge(responses, questions) ==
    IF responses = <<>> THEN <<>>
    ELSE LET r == Head(responses)
             matches == SelectSeq(questions, LAMBDA q : q.questionID = r.questionID)
         IN  [i \in 1..Len(matches) |-> MergedRow(r, matches[i])]
               \o Merge(Tail(responses), questions)

Contains(list, x) == \E i \in 1..Len(list) : list[i] = x

RECURSIVE DumpChoices(_)
\* json.dumps of the list of {'choice_id': id, 'value': label}, without brackets
DumpChoices(options) ==
    IF options = <<>> THEN ""
    ELSE "{\"choice_id\": \"" \o Head(options).id \o "\", \"value\": \""
           \o Head(options).label \o "\"}"
           \o (IF Len(options) > 1 THEN ", " ELSE "") \o DumpChoices(Tail(options))
json_dumps(options) == "[" \o DumpChoices(options) \o "]"

ChoiceTypes == {"cs", "cd", "cl", "cm"}
IsType(response_type, codes) == response_type.py = "str" /\ response_type.s \in codes

\* the f-string with date and time exchanged
DateTimeValue_swapped(row) == PyStr(Str(row.time) \o "H" \o Str(row.date))

\* the value of the f-string at line 550
DateTimeValue(row) == PyStr(Str(row.date) \o "H" \o Str(row.time))

\* the list comprehension at lines 556-558, then json.dumps
SelectedChoices(row) ==
    PyStr(json_dumps(SelectSeq(row.choices_y.items,
                               LAMBDA option : Contains(row.choices_x.items, option.id))))

\* the body of the loop at lines 537-562 for one row: the row with type_name and
\* value_consolidated set, or the exception the body raises
ConsolidateRow(row) ==
    LET response_type == row.type
        response_type_col == response_type_col_ref(response_type)
        named == [row EXCEPT !.type_name = response_type_ref(response_type)]
        ok(value) == [raised |-> "none", row |-> [named EXCEPT !.value_consolidated = value]]
        raise(exception) == [raised |-> exception, row |-> named]
    IN  IF ~IsType(response_type, {"dt"} \cup ChoiceTypes)
        THEN \* .loc[ind, label] raises KeyError for a label (None too) that is no column
             IF response_type_col = None \/ response_type_col.s \notin DOMAIN row
             THEN raise("KeyError")
             ELSE ok(PyStr(Str(row[response_type_col.s])))
        ELSE IF IsType(response_type, {"dt"}) THEN ok(DateTimeValue(row))
        ELSE IF row.choices_y = None THEN ok(None)
        \* `option['id'] in choices_responses` with choices_responses None
        ELSE IF row.choices_y.items # <<>> /\ row.choices_x = None THEN raise("TypeError")
        ELSE IF row.choices_y.items = <<>> THEN ok(PyStr(json_dumps(<<>>)))
        ELSE ok(SelectedChoices(row))

RECURSIVE ConsolidateRows(_)
\* the loop: the rows in order, stopped by the first exception
ConsolidateRows(rows) ==
    IF rows = <<>> THEN [raised |-> "none", rows |-> <<>>]
    ELSE LET first == ConsolidateRow(Head(rows))
             rest == ConsolidateRows(Tail(rows))
         IN  IF first.raised # "none" THEN [raised |-> first.raised, rows |-> <<>>]
             ELSE IF rest.raised # "none" THEN rest
             ELSE [raised |-> "none", rows |-> <<first.row>> \o rest.rows]

\* property keys are <<prefix, rest>>; k.startswith('proforma.forms.i')
FormsPrefix == "proforma.forms.i"
StartsWithFormsPrefix(key) == key[1] = FormsPrefix

\* lines 497-563: the table of an issue document, or the exception raised on the way
ConsolidateForms(jira_issue_dict) ==
    LET jira_issue_properties == Get(jira_issue_dict, "properties")
        fail(exception) == [raised |-> exception, rows |-> <<>>]
    IN  \* None.items()
        IF jira_issue_properties = None THEN fail("AttributeError")
        ELSE LET jira_issue_forms_element ==
                     SelectSeq(jira_issue_properties.items,
                               LAMBDA kv : StartsWithFormsPrefix(kv[1]))
             IN  \* next(iter({}.items()))
                 IF jira_issue_forms_element = <<>> THEN fail("StopIteration")
                 ELSE LET jira_issue_forms == jira_issue_forms_element[1][2]
                          questions_list == jira_issue_forms.design.questions
                          responses_list == jira_issue_forms.state.answers
                      IN  IF questions_list = None \/ responses_list = None
                          THEN fail("AttributeError")
                          \* a DataFrame of no records has no questionID column to merge on
                          ELSE IF questions_list.items = <<>> \/ responses_list.items = <<>>
                               THEN fail("KeyError")
                          ELSE ConsolidateRows(Merge(ResponseRecords(responses_list.items),
                                                     QuestionRecords(questions_list.items)))

(***************************************************************************)
(* issue_detail                                                            *)
(***************************************************************************)
\* jq.search of a dotted path of two keys below "fields"
Search2(doc, a, b) ==
    LET fields == Get(doc, "fields")
    IN  IF fields = None \/ a \notin DOMAIN fields THEN None ELSE Get(fields[a], b)
Search1(doc, a) ==
    LET fields == Get(doc, "fields") IN IF fields = None THEN None ELSE Get(fields, a)

\* the info dictionary with the assignee read from the reporter
issue_info_dict_assignee_from_reporter(jira_issue_dict) ==
    [reporter_account_id |-> Search2(jira_issue_dict, "reporter", "accountId"),
     reporter_email_address |-> Search2(jira_issue_dict, "reporter", "emailAddress"),
     issue_status_id |-> Search2(jira_issue_dict, "status", "id"),
     issue_status_name |-> Search2(jira_issue_dict, "status", "name"),
     change_start_datetime |-> Search1(jira_issue_dict, "customfield_14069"),
     assignee_id |-> Search2(jira_issue_dict, "reporter", "accountId"),
     assignee_email_address |-> Search2(jira_issue_dict, "reporter", "emailAddress")]

issue_info_dict(jira_issue_dict) ==
    [reporter_account_id |-> Search2(jira_issue_dict, "reporter", "accountId"),
     reporter_email_address |-> Search2(jira_issue_dict, "reporter", "emailAddress"),
     issue_status_id |-> Search2(jira_issue_dict, "status", "id"),
     issue_status_name |-> Search2(jira_issue_dict, "status", "name"),
     change_start_datetime |-> Search1(jira_issue_dict, "customfield_14069"),
     assignee_id |-> Search2(jira_issue_dict, "assignee", "accountId"),
     assignee_email_address |-> Search2(jira_issue_dict, "assignee", "emailAddress")]

issue_detail(s, issue_id, include_forms, o) ==
    LET req == <<Request("GET", base_url \o "api/3/issue/" \o issue_id \o "?properties=*all",
                         NoData)>>
        record(code, info, doc, df) ==
            NamedTuple("issue_detail_info", code,
                       [jira_issue_info_dict |-> info, jira_issue_dict |-> doc,
                        question_response_df |-> df])
        failed(code) == record(code, EmptyList, EmptyObject, DataFrame(<<>>))
    IN  IF IsHTTPError(o) THEN Returned(s, req, failed(Sentinel(30, 1)))
        ELSE IF IsNetworkError(o) \/ ~Parses(o) THEN Returned(s, req, failed(Sentinel(30, 0)))
        ELSE IF ~include_forms
             THEN Returned(s, req, record(Transport(o.status), issue_info_dict(o.body), o.body,
                                          DataFrame(<<>>)))
        ELSE LET table == ConsolidateForms(o.body)
             IN  IF table.raised # "none" THEN Returned(s, req, failed(Sentinel(30, 0)))
                 ELSE Returned(s, req, record(Transport(o.status), issue_info_dict(o.body),
                                              o.body, DataFrame(table.rows)))

(***************************************************************************)
(* The issue documents the server may hold.                                *)
(***************************************************************************)
IssueFields ==
    [reporter |-> [accountId |-> PyStr("acct1"), emailAddress |-> PyStr("acct1@example.com")],
     status |-> [id |-> PyStr("10001"), name |-> PyStr("In Progress")],
     customfield_14069 |-> PyStr("2025-03-14T10:00"),
     assignee |-> [accountId |-> PyStr("acct2")]]

\* an issue document without the "properties" key
PlainIssue == [json |-> "object", fields |-> IssueFields]
\* an issue document with properties: an ordered dictionary of <<key, value>>
IssueWith(properties) ==
    [json |-> "object", fields |-> IssueFields, properties |-> PyList(properties)]
OtherProperty == <<<<"request.", "channel">>, PyStr("portal")>>
FormProperty(form) == <<<<FormsPrefix, "1">>, form>>

MaxOptions == 2
OptionOf(i) == Option(ToString(i), "Option " \o ToString(i))
\* the option lists a question may define: none, an empty one, the first k options
OptionLists == {None} \cup {PyList([i \in 1..k |-> OptionOf(i)]) : k \in 0..MaxOptions}

RECURSIVE Ascending(_)
\* the ascending sequence of a set of numbers
Ascending(S) ==
    IF S = {} THEN <<>>
    ELSE LET m == CHOOSE x \in S : \A y \in S : x <= y
         IN  <<m>> \o Ascending(S \ {m})
\* the selected-choice lists of an answer: option identifiers
ChoiceLists ==
    {PyList([i \in 1..Len(Ascending(S)) |-> ToString(Ascending(S)[i])]) :
        S \in {{}, 1..MaxOptions} \cup {{i} : i \in 1..MaxOptions}}

\* "zz" is a type code the static table does not know
Questions ==
    {Question(PyStr(t), None) : t \in {"ts", "dt", "us", "da", "zz"}}
      \cup {Question(PyStr("cs"), c) : c \in OptionLists}
\* an answer with no field, one with every field but choices, one per choice list
Answers ==
    {Answer(None, None, None, None, None),
     Answer(PyStr("hello"), PyList(<<"acct1", "acct2">>), None,
            PyStr("2025-03-14"), PyStr("10:30"))}
      \cup {Answer(None, None, c, None, None) : c \in ChoiceLists}

QuestionIds == <<"q1", "q2">>
RECURSIVE Dicts(_, _)
\* the ordered dictionaries with keys among the first n identifiers, in that
\* order, and values in V
Dicts(n, V) ==
    IF n = 0 THEN {<<>>}
    ELSE LET shorter == Dicts(n - 1, V)
         IN  shorter \cup {Append(d, <<QuestionIds[n], v>>) : d \in shorter, v \in V}

Forms ==
    {Form(PyList(q), PyList(a)) : q \in Dicts(Len(QuestionIds), Questions),
                                  a \in Dicts(Len(QuestionIds), Answers)}
      \cup {Form(None, PyList(<<>>)), Form(PyList(<<>>), None)}

FormIssues ==
    {PlainIssue, IssueWith(<<>>), IssueWith(<<OtherProperty>>)}
      \cup {IssueWith(<<OtherProperty, FormProperty(f)>>) : f \in Forms}

\* the issue documents of the client's life cycle specification
SampleForm ==
    Form(PyList(<<<<"q1", Question(PyStr("dt"), None)>>,
                  <<"q2", Question(PyStr("cs"), PyList(<<OptionOf(1), OptionOf(2)>>))>>>>),
         PyList(<<<<"q1", Answer(None, None, None, PyStr("2025-03-14"), PyStr("10:30"))>>,
                  <<"q2", Answer(None, None, PyList(<<"2">>), None, None)>>>>))
SampleIssues == {IssueWith(<<FormProperty(SampleForm)>>)}

(***************************************************************************)
(* JiraVariables: the label tables and jira_dict_lookup.                   *)
(***************************************************************************)
\* init_dicts: label -> identifier
jira_role_dict == "approver" :> 10499
jira_status_dict ==
    "done" :> 10002 @@ "in_progress" :> 10001 @@ "to_do" :> 10000
      @@ "waiting_for_approval" :> 13001 @@ "ready_to_deploy" :> 13002
      @@ "ready_for_work" :> 13003 @@ "fail" :> 13004 @@ "review_test" :> 13005
      @@ "waiting_for_custome" :> 13006 @@ "approved" :> 13007 @@ "rejected" :> 12001
jira_transition_dict ==
    "waiting_for_approval" :> 111 @@ "in_automation" :> 121 @@ "ready_to_deploy" :> 141
      @@ "ready_for_work" :> 101 @@ "fail" :> 131 @@ "review_test" :> 151
      @@ "waiting_for_customer" :> 21 @@ "done" :> 51 @@ "approved" :> 161
      @@ "rejected" :> 171
jira_components_dict == "database" :> 22503
jira_priority_dict ==
    "blocker or production down" :> 10000 @@ "highest" :> 1 @@ "high" :> 2
      @@ "medium" :> 3 @@ "low" :> 4 @@ "lowest" :> 5 @@ "none" :> 10100
jira_issue_type_dict ==
    "subtask" :> 10003 @@ "task" :> 10001 @@ "story" :> 10004 @@ "development" :> 10005
      @@ "epic" :> 10002

\* A key is None or a string, kept as the sequence of its characters.
PyChars(chars) == [py |-> "str", chars |-> chars]
LowerCase ==
    <<"a", "b", "c", "d", "e", "f", "g", "h", "i", "j", "k", "l", "m",
      "n", "o", "p", "q", "r", "s", "t", "u", "v", "w", "x", "y", "z">>
UpperCase ==
    <<"A", "B", "C", "D", "E", "F", "G", "H", "I", "J", "K", "L", "M",
      "N", "O", "P", "Q", "R", "S", "T", "U", "V", "W", "X", "Y", "Z">>
\* str.casefold and str.lower, on the characters of the alphabet above
LowerChar(c) ==
    IF \E i \in 1..Len(UpperCase) : UpperCase[i] = c
    THEN LowerCase[CHOOSE i \in 1..Len(UpperCase) : UpperCase[i] = c]
    ELSE c
casefold(chars) == [i \in 1..Len(chars) |-> LowerChar(chars[i])]
lower(chars) == [i \in 1..Len(chars) |-> LowerChar(chars[i])]

\* dict.get(key) of a label table
DictGet(table, label) == IF label \in DOMAIN table THEN PyInt(table[label]) ELSE None

ValueResult(value) == [shape |-> "value", value |-> value]

jira_dict_lookup(s, dict_type, key) ==
    \* key.casefold() at line 145, before dict_type is looked at
    IF key = None THEN Raised(s, <<>>, "AttributeError")
    ELSE LET folded == casefold(key.chars)
             label == Join(lower(folded))
         IN  Returned(s, <<>>, ValueResult(
               CASE dict_type = "role" -> DictGet(jira_role_dict, label)
                 [] dict_type = "status" -> DictGet(jira_status_dict, label)
                 [] dict_type = "transition" -> DictGet(jira_transition_dict, label)
                 [] dict_type = "components" -> DictGet(jira_components_dict, label)
                 [] dict_type = "priority" -> DictGet(jira_priority_dict, label)
                 [] dict_type = "issue_type" -> DictGet(jira_issue_type_dict, label)
                 [] OTHER -> None))

\* the arguments of a lookup: the six table names, a name of no table and a
\* table name in another case
DictTypes ==
    {"role", "status", "transition", "components", "priority", "issue_type", "labels", "Role"}
Words ==
    {<<"t", "a", "s", "k">>, <<"e", "p", "i", "c">>, <<"d", "o", "n", "e">>,
     <<"h", "i", "g", "h">>, <<"f", "a", "i", "l">>, <<"n", "o", "n", "e">>,
     <<"a", "p", "p", "r", "o", "v", "e", "r">>, <<"d", "a", "t", "a", "b", "a", "s", "e">>,
     <<"n", "o", "p", "e">>}
UpperChar(c) ==
    IF \E i \in 1..Len(LowerCase) : LowerCase[i] = c
    THEN UpperCase[CHOOSE i \in 1..Len(LowerCase) : LowerCase[i] = c]
    ELSE c
\* a word with the characters at the positions `caps` in upper case
Spell(word, caps) == [i \in 1..Len(word) |-> IF i \in caps THEN UpperChar(word[i]) ELSE word[i]]
\* os.getenv yields None for a variable that is not set
LookupKeys ==
    {None} \cup {PyChars(Spell(w, caps)) : w \in Words, caps \in {{}, {1}, 1..4}}

(***************************************************************************)
(* The state machine.                                                      *)
(***************************************************************************)
NoClient == [py |-> "no client"]
NoArgs == [none |-> TRUE]
NoCall == [op |-> "none", args |-> NoArgs, requests |-> <<>>, raised |-> "none",
           result |-> NoResult, outcome |-> NetworkError]

\* one invocation of a public method: `o` is the outcome of its HTTP exchange
\* (of its last one, for the constructor) and `r` what the method came to
Invoke(op, args, o, r) ==
    /\ self' = r.self
    /\ call' = [op |-> op, args |-> args, requests |-> r.requests, raised |-> r.raised,
                result |-> r.result, outcome |-> o]
    /\ UNCHANGED server_issue

Constructed == self # NoClient

Construct ==
    /\ self = NoClient
    /\ \E k \in ProjectKeys \cup {NoKey}, oa \in Outcomes(MyselfBodies),
          op \in Outcomes(ProjectBodies) :
          Invoke("__init__", [project_key |-> k, auth_outcome |-> oa], op,
                 JiraAPI_init(k, oa, op))

Do_authenticate ==
    /\ Constructed
    /\ \E o \in Outcomes(MyselfBodies) : Invoke("authenticate", NoArgs, o, authenticate(self, o))

Do_project_info ==
    /\ Constructed
    /\ \E k \in ProjectKeys \cup {jvars_default_project_key}, o \in Outcomes(ProjectBodies) :
          Invoke("project_info", [project_key |-> k], o, project_info(self, k, o))

Do_user_info ==
    /\ Constructed
    /\ \E a \in AccountIds, o \in Outcomes(UserBodies) :
          Invoke("user_info", [account_id |-> a], o, user_info(self, a, o))

Do_user_by_email ==
    /\ Constructed
    /\ \E e \in EmailAddresses, o \in Outcomes(SearchBodies) :
          Invoke("user_by_email", [email_address |-> e], o, user_by_email(self, e, o))

Do_search_issues ==
    /\ Constructed
    /\ \E q \in Queries, df \in BOOLEAN, o \in Outcomes(IssueSearchBodies) :
          Invoke("search_issues", [search_query |-> q, as_dataframe |-> df], o,
                 search_issues(self, q, df, o))

\* the optional arguments of issue_create: none given, one given, all given
GivenArgs ==
    [project_id |-> PyStr("10001"), issue_type_id |-> PyInt(10002),
     description |-> PyStr("details"), assignee |-> PyStr("acct2"), priority |-> PyInt(1)]
ArgsGiven(names) == [n \in DOMAIN GivenArgs |-> IF n \in names THEN GivenArgs[n] ELSE None]
CreateArgs ==
    {ArgsGiven({}), ArgsGiven(DOMAIN GivenArgs)} \cup {ArgsGiven({n}) : n \in DOMAIN GivenArgs}

Do_issue_create ==
    /\ Constructed
    /\ \E a \in CreateArgs, o \in Outcomes(CreateBodies) :
          Invoke("issue_create", a, o,
                 issue_create(self, "Summary", a.project_id, a.issue_type_id, a.description,
                              a.assignee, a.priority, o))

Do_issue_transition ==
    /\ Constructed
    /\ \E i \in IssueIds, t \in TransitionIds, o \in Outcomes({}) :
          Invoke("issue_transition", [issue_id |-> i, transition_id |-> t], o,
                 issue_transition(self, i, t, o))

Do_issue_field_update ==
    /\ Constructed
    /\ \E i \in IssueIds, o \in Outcomes({}) :
          Invoke("issue_field_update", [issue_id |-> i], o,
                 issue_field_update(self, i, [summary |-> "New"], o))

Do_issue_detail ==
    /\ Constructed
    /\ \E i \in IssueIds, f \in BOOLEAN, o \in Outcomes({server_issue}) :
          Invoke("issue_detail", [issue_id |-> i, include_forms |-> f], o,
                 issue_detail(self, i, f, o))

Do_issue_add_comment ==
    /\ Constructed
    /\ \E i \in IssueIds, o \in Outcomes({}) :
          Invoke("issue_add_comment", [issue_id |-> i], o,
                 issue_add_comment(self, i, "test comment", o))

Do_issue_assign ==
    /\ Constructed
    /\ \E i \in IssueIds, a \in AccountIds, o \in Outcomes({}) :
          Invoke("issue_assign", [issue_id |-> i, accountId |-> a], o,
                 issue_assign(self, i, a, o))

Do_issue_add_attachment ==
    /\ Constructed
    /\ \E i \in IssueIds, f \in Files, o \in Outcomes({}) :
          Invoke("issue_add_attachment", [issue_id |-> i, file_attachment |-> f], o,
                 issue_add_attachment(self, i, f, o))

Do_issue_changelog ==
    /\ Constructed
    /\ \E i \in IssueIds, m \in MaxResults, o \in Outcomes(ChangelogBodies) :
          Invoke("issue_changelog", [issue_id |-> i, max_results |-> m], o,
                 issue_changelog(self, i, m, o))

Do_issue_types_user ==
    /\ Constructed
    /\ \E df \in BOOLEAN, o \in Outcomes(IssueTypesBodies) :
          Invoke("issue_types_user", [as_dataframe |-> df], o, issue_types_user(self, df, o))

Do_issue_statuses ==
    /\ Constructed
    /\ \E pl \in BOOLEAN, df \in BOOLEAN, o \in Outcomes(StatusesBodies) :
          Invoke("issue_statuses", [projectLevel |-> pl, as_dataframe |-> df], o,
                 issue_statuses(self, pl, df, o))

\* an optional project_id argument: omitted (None) or given
ProjectIdArgs == {None, PyStr("10001")}

Do_role_add_user ==
    /\ Constructed
    /\ \E r \in RoleIds, a \in AccountIds, p \in ProjectIdArgs, o \in Outcomes({}) :
          Invoke("role_add_user", [role_id |-> r, accountId |-> a, project_id |-> p], o,
                 role_add_user(self, r, a, p, o))

Do_role_get_users ==
    /\ Constructed
    /\ \E r \in RoleIds, p \in ProjectIdArgs, o \in Outcomes(RoleBodies) :
          Invoke("role_get_users", [role_id |-> r, project_id |-> p], o,
                 role_get_users(self, r, p, o))

Do_role_info ==
    /\ Constructed
    /\ \E r \in RoleIds, p \in ProjectIdArgs, o \in Outcomes(RoleBodies) :
          Invoke("role_info", [role_id |-> r, project_id |-> p], o, role_info(self, r, p, o))

\* The life cycle of one client: no client yet, then the constructor, then any
\* sequence of method calls.
Init ==
    /\ self = NoClient
    /\ call = NoCall
    /\ server_issue \in SampleIssues

Next ==
    \/ Construct
    \/ Do_authenticate
    \/ Do_project_info
    \/ Do_user_info
    \/ Do_user_by_email
    \/ Do_search_issues
    \/ Do_issue_create
    \/ Do_issue_transition
    \/ Do_issue_field_update
    \/ Do_issue_detail
    \/ Do_issue_add_comment
    \/ Do_issue_assign
    \/ Do_issue_add_attachment
    \/ Do_issue_changelog
    \/ Do_issue_types_user
    \/ Do_issue_statuses
    \/ Do_role_add_user
    \/ Do_role_get_users
    \/ Do_role_info

Spec == Init /\ [][Next]_vars

\* The form consolidation on its own: a constructed client, the server holding any
\* of the form documents, and issue_detail applied to it.
ConstructedClient ==
    JiraAPI_init(NoKey, Response(200, UserDoc("acct1")), Response(200, ProjectDoc("10000"))).self

InitForms ==
    /\ self = ConstructedClient
    /\ call = NoCall
    /\ server_issue \in FormIssues

NextForms == Do_issue_detail

SpecForms == InitForms /\ [][NextForms]_vars

\* The label lookup on its own: jira_dict_lookup applied to any table name and key.
Do_jira_dict_lookup ==
    \E dict_type \in DictTypes, key \in LookupKeys :
        Invoke("jira_dict_lookup", [dict_type |-> dict_type, key |-> key], NetworkError,
               jira_dict_lookup(self, dict_type, key))

InitLookup ==
    /\ self = NoClient
    /\ call = NoCall
    /\ server_issue \in SampleIssues

NextLookup == Do_jira_dict_lookup

SpecLookup == InitLookup /\ [][NextLookup]_vars

(***************************************************************************)
(* Properties.                                                             *)
(***************************************************************************)
\* the last invocation was of a public method and returned a value with a status
IsMethodCall == call.op \notin {"none", "__init__"}
HasStatus(c) == c.raised = "none" /\ c.result.shape # "none"
\* the method issued its request and the request failed: network error or non-2xx
RequestFailed(c) ==
    /\ c.requests # <<>>
    /\ \/ IsNetworkError(c.outcome)
       \/ (c.outcome.kind = "response" /\ ~Is2xx(c.outcome.status))

\* C1: no public operation ever propagates an exception to its caller: whatever
\* the arguments and the outcome of the HTTP call, the call returns a value.
C1_NoExceptionPropagates == IsMethodCall => call.raised = "none"

\* C2: the status code an operation returns is negative exactly when the call
\* failed; in particular a call whose request failed (network error or non-2xx
\* response) never reports a positive transport status code as its status.
C2_FailedCallReportsNegative ==
    (IsMethodCall /\ HasStatus(call) /\ RequestFailed(call)) => call.result.status_code < 0

\* C3: the negative sentinel codes are unique per call site: two calls that
\* return negative codes with the same integer part are calls of the same
\* operation.
C3_SentinelIdentifiesOperation ==
    [][(/\ IsMethodCall /\ HasStatus(call) /\ call.result.status_code < 0
        /\ HasStatus(call') /\ call'.result.status_code < 0
        /\ IntPart(call'.result.status_code) = IntPart(call.result.status_code))
       => call'.op = call.op]_vars

\* C4: a returned sentinel is the ".1" variant X.1 exactly when the server
\* answered the operation's request with a non-2xx status; X.1 is never returned
\* when no HTTP-level failure occurred.
C4_DotOneIffHTTPError ==
    (IsMethodCall /\ HasStatus(call) /\ call.result.status_code < 0)
        => (TenthPart(call.result.status_code) = 1
              <=> (call.requests # <<>> /\ IsHTTPError(call.outcome)))

\* C5: each invocation of an operation issues at most one HTTP request, whatever
\* the outcome: no re-send of a failed request, no follow-up request.
C5_AtMostOneRequest == IsMethodCall => Len(call.requests) <= 1

\* C5's case: role_get_users got a 2xx role document with actors, the one place
\* where the code asks for a lookup per actor
C5_Witness ==
    /\ call.op = "role_get_users" /\ Len(call.requests) = 1
    /\ Parses(call.outcome) /\ "actors" \in DOMAIN call.outcome.body
    /\ Len(call.outcome.body.actors) = MaxActors

\* C6 as stated: no call on a constructed client changes any attribute of it.
C6_AttributesReadOnly == [][Constructed => self' = self]_vars

\* the attributes of s and t agree outside `names`
SameExcept(s, t, names) ==
    /\ DOMAIN s = DOMAIN t
    /\ \A n \in DOMAIN s \ names : s[n] = t[n]

\* C6 (amended): on a constructed client only authenticate and project_info
\* write attributes: authenticate writes user_account_id alone, project_info
\* writes project_info and project_id alone, and every other operation, with any
\* outcome, leaves every attribute as it was.
C6_OnlyAuthenticateAndProjectInfoWrite ==
    [][Constructed =>
          CASE call'.op = "authenticate" -> SameExcept(self, self', {"user_account_id"})
            [] call'.op = "project_info" -> SameExcept(self, self', {"project_info", "project_id"})
            [] OTHER -> self' = self]_vars

\* C6's case: a failed status-only call on a client whose defaults are cached
C6_Witness ==
    /\ call.op = "issue_transition" /\ IsNetworkError(call.outcome)
    /\ self.project_id = PyStr("10000") /\ self.user_account_id = PyStr("acct1")

\* C7: constructing a client issues exactly one authenticated-user request and
\* then exactly one project lookup, in that order, the lookup being for the key
\* passed to the constructor, or for the configured default key when none is.
C7_ConstructorRequests ==
    call.op = "__init__" =>
        call.requests =
            <<Request("GET", base_url \o "api/3/myself", NoData),
              Request("GET", base_url \o "api/3/project/"
                               \o (IF call.args.project_key = NoKey THEN "DEF"
                                   ELSE call.args.project_key), NoData)>>

\* C7's case: a key was passed, and the project is looked up though authenticate failed
C7_Witness ==
    /\ call.op = "__init__" /\ call.args.project_key = "OPS"
    /\ IsNetworkError(call.args.auth_outcome)
    /\ Len(call.requests) = 2

(***************************************************************************)
(* Properties of the form consolidation (specification SpecForms).         *)
(***************************************************************************)
\* the document a parsed 2xx response carried holds a form with both collections
HasForm(doc) ==
    /\ "properties" \in DOMAIN doc
    /\ \E i \in 1..Len(doc.properties.items) : doc.properties.items[i][1][1] = FormsPrefix
TheForm(doc) ==
    LET items == doc.properties.items
        first == CHOOSE i \in 1..Len(items) :
                    /\ items[i][1][1] = FormsPrefix
                    /\ \A j \in 1..(i - 1) : items[j][1][1] # FormsPrefix
    IN  items[first][2]
Keys(dict) == {dict.items[i][1] : i \in 1..Len(dict.items)}
ValueOf(dict, key) == dict.items[CHOOSE i \in 1..Len(dict.items) : dict.items[i][1] = key][2]
\* the identifiers that occur among the questions and among the answers
JoinedIds(form) ==
    IF form.design.questions = None \/ form.state.answers = None THEN {}
    ELSE Keys(form.design.questions) \cap Keys(form.state.answers)
QuestionOf(form, id) == ValueOf(form.design.questions, id)
AnswerOf(form, id) == ValueOf(form.state.answers, id)

\* issue_detail was called with include_forms and got a parsed 2xx document with a form
FormsCall ==
    /\ call.op = "issue_detail" /\ call.args.include_forms
    /\ Parses(call.outcome) /\ HasForm(call.outcome.body)
FormsCallSucceeded == FormsCall /\ call.result.status_code >= 0
Table == call.result.fields.question_response_df.rows
CalledForm == TheForm(call.outcome.body)

\* C8: for every joined row whose question type is 'dt', the consolidated value
\* is the answer's date, the letter H and the answer's time, in that order.
C8_DateTimeValue ==
    FormsCallSucceeded =>
        \A i \in 1..Len(Table) :
            Table[i].type = PyStr("dt") =>
                LET answer == AnswerOf(CalledForm, Table[i].questionID)
                IN  Table[i].value_consolidated
                      = PyStr(Str(answer.date) \o "H" \o Str(answer.time))

\* C8's case: a consolidated table with a 'dt' row whose answer has a date and a time
C8_Witness ==
    /\ FormsCallSucceeded
    /\ \E i \in 1..Len(Table) :
          /\ Table[i].type = PyStr("dt")
          /\ AnswerOf(CalledForm, Table[i].questionID).date = PyStr("2025-03-14")
          /\ AnswerOf(CalledForm, Table[i].questionID).time = PyStr("10:30")

\* the identifiers an answer selects; none for an absent selected-choice list
SelectedIds(answer) ==
    IF answer.choices = None THEN {}
    ELSE {answer.choices.items[i] : i \in 1..Len(answer.choices.items)}
\* the value C9 states for a choice question and its answer
StatedChoiceValue(question, answer) ==
    IF question.choices = None THEN None
    ELSE PyStr(json_dumps(SelectSeq(question.choices.items,
                                    LAMBDA option : option.id \in SelectedIds(answer))))

\* C9: for every joined row whose question type is a choice type the
\* consolidated value is the JSON list of the {choice_id, value} pairs of exactly
\* the options whose id is in the answer's selected-choice list, null when the
\* question defines no options; for every answer, also one with an empty or
\* absent selected-choice list.  (Stated for the forms all of whose joined rows
\* are choice rows, so that no row of another type decides the outcome.)
C9_ChoiceValue ==
    (/\ FormsCall
     /\ JoinedIds(CalledForm) # {}
     /\ \A id \in JoinedIds(CalledForm) : IsType(QuestionOf(CalledForm, id).type, ChoiceTypes))
    => \A id \in JoinedIds(CalledForm) :
          \E i \in 1..Len(Table) :
              /\ Table[i].questionID = id
              /\ Table[i].value_consolidated
                   = StatedChoiceValue(QuestionOf(CalledForm, id), AnswerOf(CalledForm, id))

OtherType(type) == ~IsType(type, {"dt"} \cup ChoiceTypes)
KnownCodes ==
    {"ts", "cs", "cd", "cl", "us", "um", "at", "dt", "da", "ti", "tl", "cm", "pg", "rt"}
\* the answer field the static table designates for a code that is neither 'dt'
\* nor a choice code
DesignatedField(code, answer) ==
    CASE code \in {"ts", "at", "tl", "pg", "rt"} -> answer.text
      [] code \in {"us", "um"} -> answer.users
      [] code = "da" -> answer.date
      [] code = "ti" -> answer.time

\* C10 as stated: every joined row whose type is neither date/time nor a choice
\* type, a type code absent from the static table included, is consolidated, to
\* the string form of the answer field the table designates.  (Stated for the
\* forms all of whose joined rows are such rows.)
C10_OtherTypeValue ==
    (/\ FormsCall
     /\ JoinedIds(CalledForm) # {}
     /\ \A id \in JoinedIds(CalledForm) : OtherType(QuestionOf(CalledForm, id).type))
    => \A id \in JoinedIds(CalledForm) :
          \E i \in 1..Len(Table) :
              /\ Table[i].questionID = id
              /\ Table[i].type.s \in KnownCodes
                   => Table[i].value_consolidated
                        = PyStr(Str(DesignatedField(Table[i].type.s, AnswerOf(CalledForm, id))))

\* C10 (amended): every row of the returned table whose type is neither
\* date/time nor a choice type has a type code of the static table and the
\* string form of the answer field the table designates for it (text for ts, at,
\* tl, pg, rt; users for us, um; date for da; time for ti); and when a joined
\* row's type code is absent from the table nothing is consolidated:
\* issue_detail returns status -30 and an empty table.
C10_KnownOtherTypeValue ==
    /\ FormsCallSucceeded =>
          \A i \in 1..Len(Table) :
              OtherType(Table[i].type) =>
                  /\ IsType(Table[i].type, KnownCodes)
                  /\ Table[i].value_consolidated
                       = PyStr(Str(DesignatedField(Table[i].type.s,
                                                   AnswerOf(CalledForm, Table[i].questionID))))
    /\ (/\ FormsCall
        /\ \E id \in JoinedIds(CalledForm) :
              ~IsType(QuestionOf(CalledForm, id).type, KnownCodes))
       => /\ call.result.status_code = Sentinel(30, 0)
          /\ Table = <<>>

\* C10's case: a consolidated table with a 'us' row whose answer names users and
\* has a text as well
C10_Witness ==
    /\ FormsCallSucceeded
    /\ \E i \in 1..Len(Table) :
          /\ Table[i].type = PyStr("us")
          /\ Table[i].value_consolidated = PyStr("['acct1', 'acct2']")
          /\ AnswerOf(CalledForm, Table[i].questionID).text = PyStr("hello")

\* the rows of the returned table that carry the identifier id
RowsOf(id) == {i \in 1..Len(Table) : Table[i].questionID = id}

\* C11: the table issue_detail returns with include_forms is the join of the
\* questions and the answers on the question identifier: exactly one row for each
\* identifier that occurs in both collections, no row for any other identifier.
\* (Stated for the forms whose joined questions all have a type code of the
\* static table.)
C11_TableIsJoin ==
    (/\ FormsCall
     /\ \A id \in JoinedIds(CalledForm) : IsType(QuestionOf(CalledForm, id).type, KnownCodes))
    => /\ \A id \in JoinedIds(CalledForm) : Cardinality(RowsOf(id)) = 1
       /\ \A i \in 1..Len(Table) : Table[i].questionID \in JoinedIds(CalledForm)

\* the arguments the two table functions are asked about: every code of either
\* table, a code of neither, and None (a question without a type)
AskedTypes == {PyStr(c) : c \in DOMAIN response_type_name \cup DOMAIN response_col_name \cup {"zz"}}
                \cup {None}

\* C12: the static type table maps every type code to one display name and one
\* source field: response_type_ref and response_type_col_ref return the table
\* entry for a known code and None for an unknown one, both know the same
\* codes, and the type_name of every row of a returned table is the display name
\* of the type code of the row's question.
C12_TypeTable ==
    /\ DOMAIN response_type_name = DOMAIN response_col_name
    /\ \A t \in AskedTypes :
          /\ response_type_ref(t)
               = IF IsType(t, KnownCodes) THEN PyStr(response_type_name[t.s]) ELSE None
          /\ response_type_col_ref(t)
               = IF IsType(t, KnownCodes) THEN PyStr(response_col_name[t.s]) ELSE None
          /\ IsType(t, KnownCodes) => (response_type_ref(t) # None /\ response_type_col_ref(t) # None)
    /\ FormsCallSucceeded =>
          \A i \in 1..Len(Table) :
              LET type == QuestionOf(CalledForm, Table[i].questionID).type
              IN  /\ IsType(type, KnownCodes)
                  /\ Table[i].type_name = PyStr(response_type_name[type.s])

\* C12's case: a returned table with a row for a date question and a row for a
\* choice question, each with its display name
C12_Witness ==
    /\ FormsCallSucceeded
    /\ \E i, j \in 1..Len(Table) :
          /\ Table[i].type = PyStr("da") /\ Table[i].type_name = PyStr("Date")
          /\ Table[j].type = PyStr("cs") /\ Table[j].type_name = PyStr("Choice Selector")

(***************************************************************************)
(* Properties of the label lookup (specification SpecLookup).              *)
(***************************************************************************)
TableNames == {"role", "status", "transition", "components", "priority", "issue_type"}
TableOf(dict_type) ==
    CASE dict_type = "role" -> jira_role_dict
      [] dict_type = "status" -> jira_status_dict
      [] dict_type = "transition" -> jira_transition_dict
      [] dict_type = "components" -> jira_components_dict
      [] dict_type = "priority" -> jira_priority_dict
      [] dict_type = "issue_type" -> jira_issue_type_dict
\* the key of a call in lower case, as a string; None is the key of no table
LowerCased(key) == Join([i \in 1..Len(key.chars) |-> LowerChar(key.chars[i])])
InTable(dict_type, key) ==
    /\ dict_type \in TableNames
    /\ key # None
    /\ LowerCased(key) \in DOMAIN TableOf(dict_type)

\* C13: jira_dict_lookup(dict_type, key) returns the identifier the table named
\* dict_type stores for the lower-cased key, and returns None, without failing,
\* whenever the key is not in that table or dict_type names none of the six
\* tables.
C13_LookupReturns ==
    call.op = "jira_dict_lookup" =>
        /\ call.raised = "none"
        /\ call.result
             = ValueResult(IF InTable(call.args.dict_type, call.args.key)
                           THEN PyInt(TableOf(call.args.dict_type)[LowerCased(call.args.key)])
                           ELSE None)

(***************************************************************************)
(* Properties of the result records (specification Spec).                  *)
(***************************************************************************)
\* C14: search_issues and user_by_email return, in every outcome, a record with a
\* named status_code field: result.status_code can be read without testing the
\* shape of the result first.
C14_NamedStatusCode ==
    call.op \in {"search_issues", "user_by_email"} =>
        /\ call.raised = "none"
        /\ call.result.shape = "namedtuple"

\* the flag C15 states for a call of user_by_email
StatedFound(c) ==
    IF ~PatternMatches(c.args.email_address) THEN -1
    ELSE IF ~Parses(c.outcome) THEN -1
    ELSE IF c.outcome.body.array = <<>> THEN 0
    ELSE 1

\* C15: user_by_email reports jira_user_found = 1 exactly when the search
\* returned at least one user, 0 exactly when the request succeeded with no
\* matching user, and -1 for every error outcome: an address of invalid format,
\* an HTTP error, any other exception.
C15_FoundFlag ==
    call.op = "user_by_email" =>
        /\ call.raised = "none"
        /\ call.result.shape = "namedtuple"
        /\ call.result.fields.jira_user_found = StatedFound(call)

\* addresses the format rejects: one character before the @, no @ at all
InvalidAddresses == {<<"a", "@", "x", ".", "a">>, <<"a", "b", "x">>}

\* C16: user_by_email validates the format of the address before any network
\* activity: for an address that does not match the format the call returns its
\* error result at once and issues no HTTP request.
C16_ValidatesBeforeRequest ==
    (call.op = "user_by_email" /\ call.args.email_address \in InvalidAddresses)
        => /\ call.requests = <<>>
           /\ call.raised = "none"
           /\ call.result.status_code < 0

\* C16's case: an invalid address was passed while the server would have answered
C16_Witness ==
    /\ call.op = "user_by_email"
    /\ call.args.email_address = <<"a", "@", "x", ".", "a">>
    /\ call.outcome.kind = "response" /\ Is2xx(call.outcome.status)
    /\ call.result.status_code < 0

\* the four fields of a user_info record after the document
UserFields(c) ==
    <<c.result.fields.jira_user_found, c.result.fields.jira_user_email,
      c.result.fields.jira_user_display_name, c.result.fields.jira_user_active>>

\* C17: user_info returns, on a 2xx response with a non-empty user document, the
\* transport status with found = 1 and the document's email, display name and
\* active flag; on a 2xx response with an empty document, the transport status
\* with found = 0 and empty defaults; on an HTTP error the pair (-17.1, message);
\* on any other exception the record with status -17, found = -1 and empty
\* defaults.
C17_UserInfoResults ==
    call.op = "user_info" =>
        LET o == call.outcome
            r == call.result
        IN  /\ call.raised = "none"
            /\ IF IsHTTPError(o)
               THEN r.shape = "tuple" /\ r.status_code = Sentinel(17, 1)
               ELSE /\ r.shape = "namedtuple"
                    /\ IF Parses(o) /\ o.body # EmptyObject
                       THEN /\ r.status_code = Transport(o.status)
                            /\ r.fields.jira_user_dict = o.body
                            /\ r.fields.jira_user_found = 1
                            /\ r.fields.jira_user_email = o.body.emailAddress
                            /\ r.fields.jira_user_display_name = o.body.displayName
                            /\ r.fields.jira_user_active = o.body.active
                       ELSE /\ r.status_code
                                 = (IF Parses(o) THEN Transport(o.status) ELSE Sentinel(17, 0))
                            /\ r.fields.jira_user_dict = EmptyObject
                            /\ r.fields.jira_user_found = (IF Parses(o) THEN 0 ELSE -1)
                            /\ r.fields.jira_user_email = PyStr("")
                            /\ r.fields.jira_user_display_name = PyStr("")
                            /\ r.fields.jira_user_active = FALSE

\* C17's case: the server answered 2xx with an empty document
C17_Witness ==
    /\ call.op = "user_info"
    /\ Parses(call.outcome) /\ call.outcome.body = EmptyObject
    /\ UserFields(call) = <<0, PyStr(""), PyStr(""), FALSE>>

\* C18: issue_changelog always returns a dictionary with the keys status_code,
\* changelog_entries and status_exception_comment, in which status_code is never
\* None and exactly one of the other two is set: on success changelog_entries is
\* the parsed payload and the comment is None; on failure (status -36.1 for an
\* HTTP error, -36 otherwise) changelog_entries is None and the comment
\* describes the error.
C18_ChangelogDictionary ==
    call.op = "issue_changelog" =>
        LET o == call.outcome
            r == call.result
        IN  /\ call.raised = "none"
            /\ DOMAIN r = {"shape", "status_code", "changelog_entries", "status_exception_comment"}
            /\ r.shape = "dict"
            /\ r.status_code \in Int
            /\ (r.changelog_entries = None) # (r.status_exception_comment = None)
            /\ IF Parses(o)
               THEN /\ r.status_code = Transport(o.status)
                    /\ r.changelog_entries = o.body
                    /\ r.status_exception_comment = None
               ELSE /\ r.status_code = (IF IsHTTPError(o) THEN -361 ELSE -360)
                    /\ r.changelog_entries = None
                    /\ r.status_exception_comment.py = "str"

\* C18's case: a 2xx response whose body is no JSON, handled by the generic handler
C18_Witness ==
    /\ call.op = "issue_changelog"
    /\ call.outcome.kind = "response" /\ Is2xx(call.outcome.status) /\ ~Parses(call.outcome)
    /\ call.result.status_code = -360
    /\ call.result.status_exception_comment # None

\* the sentinel X of each status-only operation, as C19 lists them
StatedSentinel ==
    [issue_transition |-> 37, issue_field_update |-> 35, issue_add_comment |-> 33,
     issue_assign |-> 34, role_add_user |-> 51]

\* C19: a status-only operation returns exactly one of three values, determined
\* by the outcome of its single request: the transport status code on a 2xx
\* response, X.1 on an HTTP error and X on any other exception, with X = -37 for
\* issue_transition, -35 for issue_field_update, -33 for issue_add_comment, -34
\* for issue_assign and -51 for role_add_user.
C19_StatusOnlyValues ==
    call.op \in DOMAIN StatedSentinel =>
        LET o == call.outcome
            X == StatedSentinel[call.op]
        IN  /\ call.raised = "none"
            /\ Len(call.requests) = 1
            /\ call.result.shape = "number"
            /\ call.result.status_code
                 = (IF o.kind = "response" /\ Is2xx(o.status) THEN o.status * 10
                    ELSE IF IsHTTPError(o) THEN -(X * 10 + 1)
                    ELSE -(X * 10))

(***************************************************************************)
(* Properties of the issue_detail record (specification SpecForms).        *)
(***************************************************************************)
\* the info dictionary C20 states for an issue document: the seven keys, each
\* with the value found at its path in the document (None for a missing one)
StatedInfo(doc) ==
    [reporter_account_id |-> doc.fields.reporter.accountId,
     reporter_email_address |-> doc.fields.reporter.emailAddress,
     issue_status_id |-> doc.fields.status.id,
     issue_status_name |-> doc.fields.status.name,
     change_start_datetime |-> doc.fields.customfield_14069,
     assignee_id |-> doc.fields.assignee.accountId,
     assignee_email_address |->
         IF "emailAddress" \in DOMAIN doc.fields.assignee
         THEN doc.fields.assignee.emailAddress ELSE None]

\* the record of a failed call: empty info, empty document, empty table
FailureRecord(r, code) ==
    /\ r.status_code = code
    /\ r.fields.jira_issue_info_dict = EmptyList
    /\ r.fields.jira_issue_dict = EmptyObject
    /\ r.fields.question_response_df = DataFrame(<<>>)

\* C20: issue_detail returns a four-field record in every outcome: on success
\* without include_forms the transport status, the seven-key info dictionary, the
\* raw issue document and an empty table; on failure (status -30.1 for an HTTP
\* error, -30 for any other exception, a failure while consolidating forms
\* included) empty info, an empty document and an empty table.
C20_IssueDetailRecord ==
    call.op = "issue_detail" =>
        LET o == call.outcome
            r == call.result
        IN  /\ call.raised = "none"
            /\ r.shape = "namedtuple"
            /\ DOMAIN r.fields
                 = {"jira_issue_info_dict", "jira_issue_dict", "question_response_df"}
            /\ IF IsHTTPError(o) THEN FailureRecord(r, -301)
               ELSE IF ~Parses(o) THEN FailureRecord(r, -300)
               ELSE IF ~call.args.include_forms
                    THEN /\ r.status_code = o.status * 10
                         /\ r.fields.jira_issue_info_dict = StatedInfo(o.body)
                         /\ r.fields.jira_issue_dict = o.body
                         /\ r.fields.question_response_df = DataFrame(<<>>)
               ELSE \/ FailureRecord(r, -300)
                    \/ /\ r.status_code = o.status * 10
                       /\ r.fields.jira_issue_info_dict = StatedInfo(o.body)
                       /\ r.fields.jira_issue_dict = o.body

\* C20's case: the request succeeded and the consolidation of the forms failed
C20_Witness ==
    /\ FormsCall
    /\ JoinedIds(CalledForm) # {}
    /\ FailureRecord(call.result, -300)

(***************************************************************************)
(* Properties of issue_create, project_info and role_get_users             *)
(* (specification Spec).                                                   *)
(***************************************************************************)
\* the argument of a call of issue_create, or the client's default when omitted
Resulting(given, default) == IF given = None THEN default ELSE given

\* C21: issue_create replaces every omitted optional argument by the client's
\* default (project id, default issue type id, empty description, authenticated
\* user id as assignee, default priority id), uses every given argument as
\* given, and the create request it sends carries the resulting project, issue
\* type, assignee, priority, description and summary.
C21_CreateRequestCarriesArguments ==
    (call.op = "issue_create" /\ Len(call.requests) = 1) =>
        LET fields == call.requests[1].data
            a == call.args
        IN  /\ fields.summary = "Summary"
            /\ fields.project = Resulting(a.project_id, self.project_id)
            /\ fields.issuetype = Resulting(a.issue_type_id, self.default_issue_type_id)
            /\ fields.description = Resulting(a.description, PyStr(""))
            /\ fields.assignee = Resulting(a.assignee, self.user_account_id)
            /\ "priority" \in DOMAIN fields
            /\ Str(fields.priority) = Str(Resulting(a.priority, self.default_priority_id))

\* C22: project_info(project_key) can be invoked on a client any number of
\* times, for any project key, at any point of the client's lifetime, after a
\* successful construction included, and each invocation performs the lookup and
\* returns the transport status code or a negative sentinel.
C22_ProjectInfoReinvocable ==
    call.op = "project_info" =>
        /\ call.raised = "none"
        /\ call.requests
             = <<Request("GET", base_url \o "api/3/project/" \o call.args.project_key, NoData)>>
        /\ \/ call.result.status_code < 0
           \/ /\ call.outcome.kind = "response"
              /\ call.result.status_code = call.outcome.status * 10

\* the email address the server keeps for an account
EmailOf(account_id) == FullUserDoc(account_id).emailAddress

\* C23: role_get_users, on a 2xx response for a role with any number of actors,
\* returns the transport status code, a table with one row per actor whose
\* user_email is that actor's email address, and the raw role document; -50 and
\* -50.1 are returned only when the role request itself failed.
C23_RoleUsersTable ==
    (/\ call.op = "role_get_users" /\ call.requests # <<>>
     /\ Parses(call.outcome) /\ "actors" \in DOMAIN call.outcome.body)
    => LET actors == call.outcome.body.actors
           r == call.result
       IN  /\ call.raised = "none"
           /\ r.status_code = call.outcome.status * 10
           /\ r.fields.jiraRole_dict = call.outcome.body
           /\ Len(r.fields.jiraRole_users_df.rows) = Len(actors)
           /\ \A i \in 1..Len(actors) :
                 /\ r.fields.jiraRole_users_df.rows[i].actorUser_accountId
                      = actors[i].actorUser_accountId
                 /\ r.fields.jiraRole_users_df.rows[i].user_email
                      = EmailOf(actors[i].actorUser_accountId)

====
